---- MODULE Spec2Model ----
(***************************************************************************)
(* A model of the event-source journal: the Journal facade (journal.js),   *)
(* the in-memory adapter (adapters/memory.js) and the PostgreSQL adapter   *)
(* (adapters/postgresql.js).                                               *)
(*                                                                         *)
(* Every public method is a Bluebird coroutine: a call runs synchronously  *)
(* up to its first `yield` of a promise, is suspended there, and is        *)
(* resumed in a later turn of the event loop.  One action of the model is  *)
(* one such synchronous segment; actions of different calls interleave.    *)
(***************************************************************************)
EXTENDS Integers, Sequences, FiniteSets, TLC

(***************************************************************************)
(* Bounds of the model.                                                    *)
(***************************************************************************)
MaxCalls == 4
MaxFairCalls == 3
MaxArgsCalls == 3
MaxUnusual == 1
MaxFaultCalls == 3
MaxRefCalls == 3
MaxVersion == 2

Refs == {"ref1", "ref2"}

(***************************************************************************)
(* JavaScript values.  A value that may be undefined, a number or          *)
(* something else is a record [t, v]; t = "float" stands for v + 0.5.      *)
(***************************************************************************)
Undefined == [t |-> "undefined", v |-> 0]
Num(n) == [t |-> "number", v |-> n]
Float(n) == [t |-> "float", v |-> n]
NotANumber == [t |-> "string", v |-> 0]

Name(s) == [t |-> "string", s |-> s]
NoName == [t |-> "undefined", s |-> ""]
ObjectName == [t |-> "object", s |-> ""]

\* typeof x === 'number'
IsNumber(x) == x.t \in {"number", "float"}

\* !x for a value that is undefined or a number (0 is falsy)
Falsy(x) == x.t = "undefined" \/ (x.t = "number" /\ x.v = 0)

NoEntry == [event |-> "", ref |-> "", payload |-> "undefined",
            initiated_by |-> "", version |-> 0]

(***************************************************************************)
(* State.                                                                  *)
(*   config       privateData.get(journal).config                          *)
(*   initialized  journal.initialized                                      *)
(*   adapter      privateData.get(journal).adapter: 0 when absent, else    *)
(*                the index in `adapters` of the adapter instance          *)
(*   adapters     every adapter instance created so far (new Adapter()),   *)
(*                with the in-memory adapter's this.db                     *)
(*   table        the rows of the PostgreSQL events table                  *)
(*   clients      every createClient and destroyClient call made so far,   *)
(*                in call order, with the coroutine's position (pc)        *)
(*   calls        every createEventForRef call made so far, in call order, *)
(*                with the coroutine's position (pc) and its locals        *)
(*   reads        every getEventsForRef call made so far, in call order    *)
(***************************************************************************)
VARIABLES config, initialized, adapter, adapters, table, clients, calls, reads

vars == <<config, initialized, adapter, adapters, table, clients, calls, reads>>

validAdapters_redis == {"mongodb", "postgresql", "memory", "redis"}

validAdapters == {"mongodb", "postgresql", "memory"}

toLowerCase_same(s) == s

\* String.prototype.toLowerCase on the adapter names the model uses
toLowerCase(s) ==
    CASE s = "MEMORY" -> "memory"
      [] s = "Memory" -> "memory"
      [] s = "PostgreSQL" -> "postgresql"
      [] OTHER -> s

(***************************************************************************)
(* Which adapter methods initializePublicMethods wraps in a promise        *)
(* returning function.  A generator method that is not wrapped returns a   *)
(* generator object when called, and its body does not run.                *)
(***************************************************************************)
MemoryWrapped == {"createEventForRef", "getLatestVersionForRef",
                  "createDatabaseConnection", "closeDatabaseConnection"}

PostgresWrapped == {"createEventForRef", "getLatestVersionForRef",
                    "createDatabaseConnection"}

Wrapped(adapterName) ==
    IF adapterName = "memory" THEN MemoryWrapped ELSE PostgresWrapped

(***************************************************************************)
(* Sequences of entries.                                                   *)
(***************************************************************************)
RECURSIVE InsertDesc(_, _)
InsertDesc(e, s) ==
    IF s = <<>> THEN <<e>>
    ELSE IF e.version > Head(s).version THEN <<e>> \o s
    ELSE <<Head(s)>> \o InsertDesc(e, Tail(s))

RECURSIVE InsertAsc(_, _)
InsertAsc(e, s) ==
    IF s = <<>> THEN <<e>>
    ELSE IF e.version < Head(s).version THEN <<e>> \o s
    ELSE <<Head(s)>> \o InsertAsc(e, Tail(s))

\* results.sort(function(a, b) { return b.version - a.version; })
RECURSIVE SortDesc(_)
SortDesc(s) == IF s = <<>> THEN <<>> ELSE InsertDesc(Head(s), SortDesc(Tail(s)))

RECURSIVE SortAsc(_)
SortAsc(s) == IF s = <<>> THEN <<>> ELSE InsertAsc(Head(s), SortAsc(Tail(s)))

(***************************************************************************)
(* The in-memory adapter.                                                  *)
(***************************************************************************)
getLatestVersionForRef_asc(db, refId) ==
    LET ofRef(storedEntry) == storedEntry.ref = refId
        results == SortAsc(SelectSeq(db, ofRef))
    IN  IF results # <<>> THEN results[1].version ELSE 0

\* MemoryAdapter.getLatestVersionForRef
getLatestVersionForRef(db, refId) ==
    LET ofRef(storedEntry) == storedEntry.ref = refId
        results == SortDesc(SelectSeq(db, ofRef))
    IN  IF results # <<>> THEN results[1].version ELSE 0

versionCheckOk_gt(db, entry) ==
    ~ \E i \in DOMAIN db :
        db[i].ref = entry.ref /\ db[i].version > entry.version

\* const versionCheckOk = !this.db.some(...)
versionCheckOk_anyRef(db, entry) ==
    ~ \E i \in DOMAIN db : db[i].version >= entry.version

versionCheckOk(db, entry) ==
    ~ \E i \in DOMAIN db :
        db[i].ref = entry.ref /\ db[i].version >= entry.version

push_always(db, entry, ok) == Append(db, entry)

push_replace(db, entry, ok) ==
    LET other(storedEntry) == storedEntry.ref # entry.ref
    IN  IF ok THEN Append(SelectSeq(db, other), entry) ELSE db

\* if(versionCheckOk) { this.db.push(entry); }
push(db, entry, ok) == IF ok THEN Append(db, entry) ELSE db

\* storedEntry.version >= fromVersion: a comparison with undefined is false
Gte(version, bound) == IsNumber(bound) /\ version >= bound.v + (IF bound.t = "float" THEN 1 ELSE 0)

Lte(version, bound) == IsNumber(bound) /\ version <= bound.v

\* MemoryAdapter.getEventsForRef (the generator's body)
MemoryGetEventsForRef(db, refId, fromVersion, toVersion) ==
    LET inRange(storedEntry) ==
            /\ storedEntry.ref = refId
            /\ Gte(storedEntry.version, fromVersion)
            /\ Lte(storedEntry.version, toVersion)
    IN  SelectSeq(db, inRange)

(***************************************************************************)
(* Calls.                                                                  *)
(***************************************************************************)
NoError == [name |-> "", message |-> ""]
JournalError(message) == [name |-> "JournalError", message |-> message]
AdapterError(message) == [name |-> "AdapterError", message |-> message]
TypeError(message) == [name |-> "TypeError", message |-> message]
PlainError(message) == [name |-> "Error", message |-> message]

\* A settled promise a coroutine is suspended on: its value, or rejected
Resolved(n) == [ok |-> TRUE, v |-> n]
Rejected == [ok |-> FALSE, v |-> 0]

Throw(c, error) == [c EXCEPT !.pc = "done", !.outcome = "error", !.error = error]

Return(c, outcome) == [c EXCEPT !.pc = "done", !.outcome = outcome]

(***************************************************************************)
(* Journal.createClient and Journal.destroyClient.                         *)
(***************************************************************************)
\* A createClient or destroyClient call as it starts.  `quiet` records, for
\* the properties, whether every earlier destroyClient call had completed by
\* then, and `settled` whether every earlier call of the two had.
ClientCall(op, adapterArg) ==
    [op |-> op, pc |-> "start", adapterArg |-> adapterArg, adapter |-> 0,
     outcome |-> "pending", error |-> NoError,
     quiet |-> \A j \in DOMAIN clients :
                  clients[j].op = "destroyClient" => clients[j].pc = "done",
     settled |-> \A j \in DOMAIN clients : clients[j].pc = "done"]

SlotTaken_never == FALSE

\* else if(privateData.get(this).adapter)
SlotTaken == adapter # 0

DestroyIfInitialized_always == TRUE

\* destroyClient: if(this.initialized)
DestroyIfInitialized == initialized

NotInitialized_noAdapter == adapter = 0

\* createEventForRef, getEventsForRef: if(!this.initialized)
NotInitialized == ~initialized

\* new Adapter(): only the in-memory adapter has a this.db
NewAdapter(name) == [name |-> name, hasDb |-> name = "memory", db |-> <<>>]

ConfigAfterCreateClient_stored(adapterArg) ==
    [config EXCEPT !.adapterName = IF adapterArg = "" THEN @ ELSE adapterArg]

\* adapter = (adapter || config.adapterName)...; dbConnectionOptions =
\* dbConnectionOptions || config.dbConnectionOptions: the parameters are
\* assigned, the stored configuration is only read
ConfigAfterCreateClient(adapterArg) == config

CreateClient_slotFirst(adapterArg) ==
    LET name == toLowerCase(IF adapterArg = "" THEN config.adapterName ELSE adapterArg)
        c == ClientCall("createClient", adapterArg)
    IN  /\ IF SlotTaken
           THEN /\ clients' = Append(clients,
                                     Throw(c, TypeError("has already been initialized")))
                /\ UNCHANGED adapters
           ELSE IF name \notin validAdapters
           THEN /\ clients' = Append(clients, Throw(c, TypeError("is an invalid adapter")))
                /\ UNCHANGED adapters
           ELSE /\ adapters' = Append(adapters, NewAdapter(name))
                /\ clients' = Append(clients, [c EXCEPT !.pc = "connecting",
                                                        !.adapter = Len(adapters) + 1])
        /\ config' = ConfigAfterCreateClient(adapterArg)
        /\ UNCHANGED <<initialized, adapter, table, calls, reads>>

\* createClient up to `yield new Adapter().createDatabaseConnection(...)`
CreateClient(adapterArg) ==
    LET name == toLowerCase(IF adapterArg = "" THEN config.adapterName ELSE adapterArg)
        c == ClientCall("createClient", adapterArg)
    IN  /\ IF name \notin validAdapters
           THEN /\ clients' = Append(clients, Throw(c, TypeError("is an invalid adapter")))
                /\ UNCHANGED adapters
           ELSE IF SlotTaken
           THEN /\ clients' = Append(clients,
                                     Throw(c, TypeError("has already been initialized")))
                /\ UNCHANGED adapters
           ELSE /\ adapters' = Append(adapters, NewAdapter(name))
                /\ clients' = Append(clients, [c EXCEPT !.pc = "connecting",
                                                        !.adapter = Len(adapters) + 1])
        /\ config' = ConfigAfterCreateClient(adapterArg)
        /\ UNCHANGED <<initialized, adapter, table, calls, reads>>

\* createClient after the connection promise resolved
CreateClientResume(i) ==
    /\ i \in DOMAIN clients
    /\ clients[i].op = "createClient" /\ clients[i].pc = "connecting"
    /\ initialized' = TRUE
    /\ adapter' = clients[i].adapter
    /\ clients' = [clients EXCEPT ![i] = Return(@, "journal")]
    /\ UNCHANGED <<config, adapters, table, calls, reads>>

CreateClientFail_marked(i) ==
    /\ i \in DOMAIN clients
    /\ clients[i].op = "createClient" /\ clients[i].pc = "connecting"
    /\ adapters[clients[i].adapter].name # "memory"
    /\ initialized' = TRUE
    /\ adapter' = clients[i].adapter
    /\ clients' = [clients EXCEPT ![i] = Throw(@, PlainError("connect failed"))]
    /\ UNCHANGED <<config, adapters, table, calls, reads>>

\* createClient after the connection promise was rejected (pg.connectAsync
\* or the CREATE TABLE query failed): catch(err) { throw new Error(err.message) }
CreateClientFail(i) ==
    /\ i \in DOMAIN clients
    /\ clients[i].op = "createClient" /\ clients[i].pc = "connecting"
    /\ adapters[clients[i].adapter].name # "memory"
    /\ clients' = [clients EXCEPT ![i] = Throw(@, PlainError("connect failed"))]
    /\ UNCHANGED <<config, initialized, adapter, adapters, table, calls, reads>>

closeDatabaseConnection_keep(ad) == [ad EXCEPT !.hasDb = FALSE]

\* MemoryAdapter.closeDatabaseConnection: delete this.db
closeDatabaseConnection(ad) == [ad EXCEPT !.hasDb = FALSE, !.db = <<>>]

InitializedWhileClosing_kept == initialized

\* this.initialized = false, before the yield
InitializedWhileClosing == FALSE

DestroyClientResume_kept(i) ==
    /\ i \in DOMAIN clients
    /\ clients[i].op = "destroyClient" /\ clients[i].pc = "closing"
    /\ clients' = [clients EXCEPT ![i] = Return(@, "journal")]
    /\ UNCHANGED <<config, initialized, adapter, adapters, table, calls, reads>>

\* destroyClient up to `yield ...adapter.closeDatabaseConnection()`
DestroyClient ==
    LET c == ClientCall("destroyClient", "")
    IN  /\ IF ~DestroyIfInitialized
           THEN /\ clients' = Append(clients, Return(c, "journal"))
                /\ UNCHANGED <<initialized, adapters>>
           ELSE /\ initialized' = InitializedWhileClosing
                /\ IF adapter = 0
                   THEN /\ clients' = Append(clients,
                                             Throw(c, TypeError("adapter is undefined")))
                        /\ UNCHANGED adapters
                   ELSE IF "closeDatabaseConnection" \in Wrapped(adapters[adapter].name)
                   THEN /\ adapters' = [adapters EXCEPT
                                            ![adapter] = closeDatabaseConnection(@)]
                        /\ clients' = Append(clients, [c EXCEPT !.pc = "closing",
                                                                !.adapter = adapter])
                   ELSE \* the adapter itself is yielded, which is no promise
                        /\ clients' = Append(clients,
                                Throw([c EXCEPT !.adapter = adapter],
                                      TypeError("yielded value is not a promise")))
                        /\ UNCHANGED adapters
        /\ UNCHANGED <<config, adapter, table, calls, reads>>

\* destroyClient when closeDatabaseConnection throws (PostgreSQL: pg.end()):
\* the flag is cleared already, the exception leaves the coroutine
DestroyClientFail ==
    LET c == [ClientCall("destroyClient", "") EXCEPT !.adapter = adapter]
    IN  /\ DestroyIfInitialized
        /\ adapter # 0
        /\ adapters[adapter].name # "memory"
        /\ initialized' = InitializedWhileClosing
        /\ clients' = Append(clients, Throw(c, PlainError("disconnect failed")))
        /\ UNCHANGED <<config, adapter, adapters, table, calls, reads>>

\* destroyClient after the disconnect promise resolved
DestroyClientResume(i) ==
    /\ i \in DOMAIN clients
    /\ clients[i].op = "destroyClient" /\ clients[i].pc = "closing"
    /\ adapter' = 0
    /\ clients' = [clients EXCEPT ![i] = Return(@, "journal")]
    /\ UNCHANGED <<config, initialized, adapters, table, calls, reads>>

(***************************************************************************)
(* Journal.createEventForRef with the in-memory adapter.                   *)
(***************************************************************************)
ValidateCreateEvent_lax(eventName, eventData, currentVersion) ==
    IF eventName.t = "undefined" \/ (eventName.t = "string" /\ eventName.s = "")
        THEN "Missing eventName"
    ELSE IF eventName.t # "string"
        THEN "Invalid eventName"
    ELSE IF currentVersion.t # "undefined" /\ ~IsNumber(currentVersion)
        THEN "currentVersion must be a number"
    ELSE IF currentVersion.t # "undefined" /\ currentVersion.v < 0
        THEN "currentVersion must be a positive number"
    ELSE IF currentVersion.t # "undefined" /\ currentVersion.t = "float"
        THEN "currentVersion must be an integer"
    ELSE IF eventData = "function"
        THEN "eventData cannot be a function"
    ELSE ""

ValidateCreateEvent_dataFirst(eventName, eventData, currentVersion) ==
    IF eventData = "function"
        THEN "eventData cannot be a function"
    ELSE IF eventData \in {"custom", "null"}
        THEN "eventData cannot be a custom object"
    ELSE IF eventName.t = "undefined" \/ (eventName.t = "string" /\ eventName.s = "")
        THEN "Missing eventName"
    ELSE IF eventName.t # "string"
        THEN "Invalid eventName"
    ELSE IF currentVersion.t # "undefined" /\ ~IsNumber(currentVersion)
        THEN "currentVersion must be a number"
    ELSE IF currentVersion.t # "undefined" /\ currentVersion.v < 0
        THEN "currentVersion must be a positive number"
    ELSE IF currentVersion.t # "undefined" /\ currentVersion.t = "float"
        THEN "currentVersion must be an integer"
    ELSE ""

\* The argument checks of Journal.createEventForRef: the message of the
\* first JournalError thrown, "" when none is
ValidateCreateEvent(eventName, eventData, currentVersion) ==
    IF eventName.t = "undefined" \/ (eventName.t = "string" /\ eventName.s = "")
        THEN "Missing eventName"
    ELSE IF eventName.t # "string"
        THEN "Invalid eventName"
    ELSE IF currentVersion.t # "undefined" /\ ~IsNumber(currentVersion)
        THEN "currentVersion must be a number"
    ELSE IF currentVersion.t # "undefined" /\ currentVersion.v < 0
        THEN "currentVersion must be a positive number"
    ELSE IF currentVersion.t # "undefined" /\ currentVersion.t = "float"
        THEN "currentVersion must be an integer"
    ELSE IF eventData = "function"
        THEN "eventData cannot be a function"
    ELSE IF eventData \in {"custom", "null"}
        THEN "eventData cannot be a custom object"
    ELSE ""

\* A createEventForRef call as it starts.  `alone` records, for the properties,
\* whether every earlier call for the same ref had completed by then; `conn`
\* is the number of pooled connections the call has acquired and not released.
AppendCall(eventName, refId, eventData, userId, currentVersion) ==
    [pc |-> "start", eventName |-> eventName, refId |-> refId,
     eventData |-> eventData, userId |-> userId, currentVersion |-> currentVersion,
     adapter |-> 0, cur |-> 0, awaited |-> Resolved(0), latestVersion |-> 0,
     attempts |-> 0, outcome |-> "pending", error |-> NoError, entry |-> NoEntry,
     conn |-> 0,
     alone |-> \A j \in DOMAIN calls : calls[j].refId = refId => calls[j].pc = "done"]

\* const entry = {...}
Entry(c, currentVersion) ==
    [event |-> c.eventName.s, ref |-> c.refId, payload |-> c.eventData,
     initiated_by |-> c.userId, version |-> currentVersion + 1]

pcAfterConflict_retry(c) == "latest"

\* where the coroutine is suspended after a failed version check
pcAfterConflict(c) == "conflict"

MemoryCheck_stale(c, ad, currentVersion) ==
    LET entry == Entry(c, currentVersion)
        tried == [c EXCEPT !.cur = currentVersion, !.attempts = @ + 1]
    IN  IF ~ad.hasDb
        THEN Throw([c EXCEPT !.cur = currentVersion], TypeError("this.db is undefined"))
        ELSE IF versionCheckOk(ad.db, entry)
        THEN [tried EXCEPT !.pc = "done", !.outcome = "event", !.entry = entry]
        ELSE [tried EXCEPT !.pc = pcAfterConflict(c),
                           !.awaited = Resolved(currentVersion)]

\* MemoryAdapter.createEventForRef from `const entry` to the next yield or
\* the return: the call afterwards
MemoryCheck(c, ad, currentVersion) ==
    LET entry == Entry(c, currentVersion)
        tried == [c EXCEPT !.cur = currentVersion, !.attempts = @ + 1]
    IN  IF ~ad.hasDb
        THEN Throw([c EXCEPT !.cur = currentVersion], TypeError("this.db is undefined"))
        ELSE IF versionCheckOk(ad.db, entry)
        THEN [tried EXCEPT !.pc = "done", !.outcome = "event", !.entry = entry]
        ELSE [tried EXCEPT !.pc = pcAfterConflict(c),
                           !.awaited = Resolved(getLatestVersionForRef(ad.db, c.refId))]

\* ... and the adapter afterwards
MemoryStore(c, ad, currentVersion) ==
    LET entry == Entry(c, currentVersion)
    IN  IF ~ad.hasDb THEN ad
        ELSE [ad EXCEPT !.db = push(ad.db, entry, versionCheckOk(ad.db, entry))]

ResolveVersion_undefinedOnly(currentVersion) == currentVersion.t = "undefined"

\* if(!currentVersion)
ResolveVersion(currentVersion) == Falsy(currentVersion)

\* MemoryAdapter.createEventForRef up to its first yield or its return
MemoryCreateEventForRef(c, a) ==
    LET ad == adapters[a]
    IN  IF ResolveVersion(c.currentVersion)
        THEN /\ calls' = Append(calls,
                    [c EXCEPT !.pc = "latest",
                              !.awaited = IF ad.hasDb
                                          THEN Resolved(getLatestVersionForRef(ad.db, c.refId))
                                          ELSE Rejected])
             /\ UNCHANGED adapters
        ELSE /\ calls' = Append(calls, MemoryCheck(c, ad, c.currentVersion.v))
             /\ adapters' = [adapters EXCEPT ![a] = MemoryStore(c, ad, c.currentVersion.v)]

\* resumed at `currentVersion = yield this.getLatestVersionForRef(refId)`
MemoryResumeLatest(i) ==
    /\ i \in DOMAIN calls /\ calls[i].pc = "latest"
    /\ adapters[calls[i].adapter].name = "memory"
    /\ LET c == calls[i]
           ad == adapters[c.adapter]
       IN  IF ~c.awaited.ok
           THEN /\ calls' = [calls EXCEPT ![i] = Throw(c, TypeError("this.db is undefined"))]
                /\ UNCHANGED adapters
           ELSE /\ calls' = [calls EXCEPT ![i] = MemoryCheck(c, ad, c.awaited.v)]
                /\ adapters' = [adapters EXCEPT ![c.adapter] = MemoryStore(c, ad, c.awaited.v)]
    /\ UNCHANGED <<config, initialized, adapter, table, clients, reads>>

\* resumed at `const latestVersion = yield this.getLatestVersionForRef(refId)`
MemoryResumeConflict(i) ==
    /\ i \in DOMAIN calls /\ calls[i].pc = "conflict"
    /\ adapters[calls[i].adapter].name = "memory"
    /\ calls' = [calls EXCEPT ![i] =
            Throw([calls[i] EXCEPT !.latestVersion = calls[i].awaited.v],
                  AdapterError("version conflict"))]
    /\ UNCHANGED <<config, initialized, adapter, adapters, table, clients, reads>>

(***************************************************************************)
(* PostgresSQLAdapter.createEventForRef.  The events table has             *)
(* UNIQUE (version, ref); `table` holds its rows in insertion order.  A    *)
(* query runs at the database at some moment between the yield that sends  *)
(* it and the resumption with its result: one action is the query at the   *)
(* database together with the coroutine's segment that its result resumes. *)
(***************************************************************************)
\* SELECT MAX(version) AS version ... WHERE ref=$1; return version || 0
PostgresLatestVersionForRef(rows, refId) ==
    LET versions == {rows[k].version : k \in {k \in DOMAIN rows : rows[k].ref = refId}}
    IN  IF versions = {} THEN 0
        ELSE CHOOSE m \in versions : \A n \in versions : n <= m

\* the row of queryArgs
Row(c, currentVersion) ==
    [event |-> c.eventName.s, ref |-> c.refId,
     payload |-> IF c.eventData = "undefined" THEN "null" ELSE c.eventData,
     initiated_by |-> IF c.userId = "" THEN "null" ELSE c.userId,
     version |-> currentVersion + 1]

\* UNIQUE (version, ref): whether the INSERT raises sqlState 23505
UniqueViolation(rows, row) ==
    \E k \in DOMAIN rows : rows[k].ref = row.ref /\ rows[k].version = row.version

\* createEventForRef up to `yield pg.connectAsync(this.config)`
PostgresCreateEventForRef(c) ==
    /\ calls' = Append(calls, [c EXCEPT !.pc = "connect"])
    /\ UNCHANGED adapters

\* resumed with the connection: sends SELECT MAX(version) or the INSERT
PostgresResumeConnect(i) ==
    /\ i \in DOMAIN calls /\ calls[i].pc = "connect"
    /\ calls' = [calls EXCEPT ![i] =
            IF ResolveVersion(calls[i].currentVersion)
            THEN [calls[i] EXCEPT !.pc = "latest", !.conn = 1]
            ELSE [calls[i] EXCEPT !.pc = "insert", !.conn = 1,
                                  !.cur = calls[i].currentVersion.v]]
    /\ UNCHANGED <<config, initialized, adapter, adapters, table, clients, reads>>

\* SELECT MAX(version) at the database; resumed with it, sends the INSERT
PostgresResumeLatest(i) ==
    /\ i \in DOMAIN calls /\ calls[i].pc = "latest"
    /\ adapters[calls[i].adapter].name # "memory"
    /\ calls' = [calls EXCEPT ![i] =
            [calls[i] EXCEPT !.pc = "insert",
                             !.cur = PostgresLatestVersionForRef(table, calls[i].refId)]]
    /\ UNCHANGED <<config, initialized, adapter, adapters, table, clients, reads>>

\* the INSERT at the database; resumed with the row, or with the error
PostgresResumeInsert(i) ==
    /\ i \in DOMAIN calls /\ calls[i].pc = "insert"
    /\ LET c == calls[i]
           row == Row(c, c.cur)
           \* done() is called after the INSERT and in the catch block
           tried == [c EXCEPT !.attempts = @ + 1, !.conn = 0]
       IN  IF UniqueViolation(table, row)
           THEN /\ calls' = [calls EXCEPT ![i] = [tried EXCEPT !.pc = "conflict"]]
                /\ UNCHANGED table
           ELSE /\ calls' = [calls EXCEPT ![i] =
                        [tried EXCEPT !.pc = "done", !.outcome = "event", !.entry = row]]
                /\ table' = Append(table, row)
    /\ UNCHANGED <<config, initialized, adapter, adapters, clients, reads>>

\* SELECT MAX(version) after sqlState 23505; throws the version conflict
PostgresResumeConflict(i) ==
    /\ i \in DOMAIN calls /\ calls[i].pc = "conflict"
    /\ adapters[calls[i].adapter].name # "memory"
    /\ calls' = [calls EXCEPT ![i] =
            Throw([calls[i] EXCEPT
                       !.latestVersion = PostgresLatestVersionForRef(table, calls[i].refId)],
                  AdapterError("version conflict"))]
    /\ UNCHANGED <<config, initialized, adapter, adapters, table, clients, reads>>

\* PostgresSQLAdapter.getEventsForRef (the generator's body): the rows of
\* SELECT * ... WHERE ref=$1 [AND version >= from] [AND version <= to]
\* ORDER BY version ASC, where a bound is in the query when it is truthy
PostgresGetEventsForRef(rows, refId, fromVersion, toVersion) ==
    LET selected(row) ==
            /\ row.ref = refId
            /\ Falsy(fromVersion) \/ Gte(row.version, fromVersion)
            /\ Falsy(toVersion) \/ Lte(row.version, toVersion)
    IN  SortAsc(SelectSeq(rows, selected))

\* The database fails pg.connectAsync, which is before the try: the
\* rejection leaves the coroutine as it is
PostgresFailConnect(i) ==
    /\ i \in DOMAIN calls /\ calls[i].pc = "connect"
    /\ calls' = [calls EXCEPT ![i] = Throw(@, PlainError("connect failed"))]
    /\ UNCHANGED <<config, initialized, adapter, adapters, table, clients, reads>>

\* The database fails SELECT MAX(version) of `if(!currentVersion)`, which is
\* before the try as well
PostgresFailLatest(i) ==
    /\ i \in DOMAIN calls /\ calls[i].pc = "latest"
    /\ adapters[calls[i].adapter].name # "memory"
    /\ calls' = [calls EXCEPT ![i] = Throw(@, PlainError("query failed"))]
    /\ UNCHANGED <<config, initialized, adapter, adapters, table, clients, reads>>

\* The database fails the INSERT with another error than sqlState 23505:
\* throw new AdapterError(400, "adapter error", {originalError: error})
PostgresFailInsert(i) ==
    /\ i \in DOMAIN calls /\ calls[i].pc = "insert"
    /\ calls' = [calls EXCEPT ![i] =
            Throw([@ EXCEPT !.attempts = @ + 1, !.conn = 0],
                  AdapterError("adapter error"))]
    /\ UNCHANGED <<config, initialized, adapter, adapters, table, clients, reads>>

\* The database fails the connect or SELECT MAX(version) of the catch block:
\* the rejection is thrown out of the catch block as it is.  When it is the
\* query that fails, getLatestVersionForRef has acquired a connection of its
\* own and does not reach its done()
PostgresFailConflict(i) ==
    /\ i \in DOMAIN calls /\ calls[i].pc = "conflict"
    /\ adapters[calls[i].adapter].name # "memory"
    /\ \/ calls' = [calls EXCEPT ![i] = Throw(@, PlainError("connect failed"))]
       \/ calls' = [calls EXCEPT ![i] =
               Throw([@ EXCEPT !.conn = 1], PlainError("query failed"))]
    /\ UNCHANGED <<config, initialized, adapter, adapters, table, clients, reads>>

\* Journal.createEventForRef up to its yield
JournalCreateEventForRef(eventName, refId, eventData, userId, currentVersion) ==
    LET c == AppendCall(eventName, refId, eventData, userId, currentVersion)
        invalid == ValidateCreateEvent(eventName, eventData, currentVersion)
    IN  /\ IF NotInitialized
           THEN /\ calls' = Append(calls,
                        Throw(c, JournalError("Journal has not been initialized")))
                /\ UNCHANGED adapters
           ELSE IF invalid # ""
           THEN /\ calls' = Append(calls, Throw(c, JournalError(invalid)))
                /\ UNCHANGED adapters
           ELSE IF adapter = 0
           THEN /\ calls' = Append(calls, Throw(c, TypeError("adapter is undefined")))
                /\ UNCHANGED adapters
           ELSE IF adapters[adapter].name = "memory"
           THEN MemoryCreateEventForRef([c EXCEPT !.adapter = adapter], adapter)
           ELSE PostgresCreateEventForRef([c EXCEPT !.adapter = adapter])
        /\ UNCHANGED <<config, initialized, adapter, table, clients, reads>>

(***************************************************************************)
(* Journal.getEventsForRef.                                                *)
(***************************************************************************)
Greater_orEqual(x, y) == x.v >= y.v

\* x > y on two numbers
Greater(x, y) ==
    x.v > y.v \/ (x.v = y.v /\ x.t = "float" /\ y.t = "number")

ValidateGetEvents(fromVersion, toVersion) ==
    IF fromVersion.t # "undefined" /\ ~IsNumber(fromVersion)
        THEN "fromVersion must be a number"
    ELSE IF toVersion.t # "undefined" /\ ~IsNumber(toVersion)
        THEN "toVersion must be a number"
    ELSE IF toVersion.t # "undefined" /\ fromVersion.t # "undefined"
            /\ Greater(fromVersion, toVersion)
        THEN "toVersion is less than fromVersion"
    ELSE ""

ReadCall(refId, fromVersion, toVersion) ==
    [pc |-> "start", refId |-> refId, fromVersion |-> fromVersion,
     toVersion |-> toVersion, adapter |-> 0, outcome |-> "pending",
     error |-> NoError, rows |-> <<>>]

\* What `yield adapter.getEventsForRef(...)` gives the Journal.  A wrapped method
\* gives the promise of its result.  Neither the in-memory nor the PostgreSQL
\* adapter wraps getEventsForRef: the call returns a generator object, whose
\* body has not run, and Bluebird rejects a coroutine that yields a value
\* that is no promise.
YieldGetEventsForRef(c, ad) ==
    IF "getEventsForRef" \in Wrapped(ad.name)
    THEN [Return(c, "rows") EXCEPT
              !.rows = MemoryGetEventsForRef(ad.db, c.refId, c.fromVersion, c.toVersion)]
    ELSE Throw(c, TypeError("yielded value is not a promise"))

\* Journal.getEventsForRef
JournalGetEventsForRef(refId, fromVersion, toVersion) ==
    LET c == ReadCall(refId, fromVersion, toVersion)
        invalid == ValidateGetEvents(fromVersion, toVersion)
    IN  /\ reads' = Append(reads,
            IF NotInitialized
                THEN Throw(c, JournalError("Journal has not been initialized"))
            ELSE IF invalid # ""
                THEN Throw(c, JournalError(invalid))
            ELSE IF adapter = 0
                THEN Throw(c, TypeError("adapter is undefined"))
            ELSE YieldGetEventsForRef([c EXCEPT !.adapter = adapter], adapters[adapter]))
        /\ UNCHANGED <<config, initialized, adapter, adapters, table, clients, calls>>

(***************************************************************************)
(* Specifications.                                                         *)
(***************************************************************************)
EventNames == {Name("Created")}
Versions == {Undefined} \cup {Num(n) : n \in 0..MaxVersion}
ReadBounds == {Undefined, Num(1)}
AdapterArgs == {""}

\* another call may be made, of at most max calls
MayCall(max) == Len(clients) + Len(calls) + Len(reads) < max

InitWith(adapterName) ==
    /\ config = [adapterName |-> adapterName, dbConnectionOptions |-> "null"]
    /\ initialized = FALSE
    /\ adapter = 0
    /\ adapters = <<>>
    /\ table = <<>>
    /\ clients = <<>>
    /\ calls = <<>>
    /\ reads = <<>>

Init == InitWith("memory")

Lifecycle(max) ==
    \/ /\ MayCall(max)
       /\ \E a \in AdapterArgs : CreateClient(a)
    \/ \E i \in DOMAIN clients : CreateClientResume(i)
    \/ /\ MayCall(max)
       /\ DestroyClient
    \/ \E i \in DOMAIN clients : DestroyClientResume(i)

AppendEvent(max) ==
    /\ MayCall(max)
    /\ \E eventName \in EventNames, refId \in Refs, currentVersion \in Versions :
           JournalCreateEventForRef(eventName, refId, "plain", "user", currentVersion)

ListEvents(max) ==
    /\ MayCall(max)
    /\ \E refId \in Refs, fromVersion \in ReadBounds, toVersion \in ReadBounds :
           JournalGetEventsForRef(refId, fromVersion, toVersion)

NextWithin(max) ==
    \/ Lifecycle(max)
    \/ AppendEvent(max)
    \/ ListEvents(max)
    \/ \E i \in DOMAIN calls : MemoryResumeLatest(i)
    \/ \E i \in DOMAIN calls : MemoryResumeConflict(i)

Next == NextWithin(MaxCalls)

Spec == Init /\ [][Next]_vars

\* A suspended coroutine is resumed: Bluebird schedules the continuation of a
\* settled promise on the event loop, which runs every scheduled continuation.
Resumed ==
    \A i \in 1..MaxCalls :
        /\ WF_vars(MemoryResumeLatest(i))
        /\ WF_vars(MemoryResumeConflict(i))
        /\ WF_vars(CreateClientResume(i))
        /\ WF_vars(DestroyClientResume(i))

FairNext == NextWithin(MaxFairCalls)

FairSpec == Init /\ [][FairNext]_vars /\ Resumed

\* The same Journal configured with the PostgreSQL adapter.  Its
\* closeDatabaseConnection is not wrapped, so destroyClient never reaches
\* DestroyClientResume.
InitPostgres == InitWith("postgresql")

NextPostgres ==
    \/ /\ MayCall(MaxCalls)
       /\ \E a \in AdapterArgs : CreateClient(a)
    \/ \E i \in DOMAIN clients : CreateClientResume(i)
    \/ /\ MayCall(MaxCalls)
       /\ DestroyClient
    \/ AppendEvent(MaxCalls)
    \/ ListEvents(MaxCalls)
    \/ \E i \in DOMAIN calls : PostgresResumeConnect(i)
    \/ \E i \in DOMAIN calls : PostgresResumeLatest(i)
    \/ \E i \in DOMAIN calls : PostgresResumeInsert(i)
    \/ \E i \in DOMAIN calls : PostgresResumeConflict(i)

PostgresSpec == InitPostgres /\ [][NextPostgres]_vars

\* The Journal with the PostgreSQL adapter and a database that may fail any
\* connect and any query.
FaultNext ==
    \/ /\ MayCall(MaxFaultCalls)
       /\ \E a \in AdapterArgs : CreateClient(a)
    \/ \E i \in DOMAIN clients : CreateClientResume(i)
    \/ \E i \in DOMAIN clients : CreateClientFail(i)
    \/ /\ MayCall(MaxFaultCalls)
       /\ DestroyClient
    \/ /\ MayCall(MaxFaultCalls)
       /\ DestroyClientFail
    \/ AppendEvent(MaxFaultCalls)
    \/ ListEvents(MaxFaultCalls)
    \/ \E i \in DOMAIN calls : PostgresResumeConnect(i)
    \/ \E i \in DOMAIN calls : PostgresResumeLatest(i)
    \/ \E i \in DOMAIN calls : PostgresResumeInsert(i)
    \/ \E i \in DOMAIN calls : PostgresResumeConflict(i)
    \/ \E i \in DOMAIN calls : PostgresFailConnect(i)
    \/ \E i \in DOMAIN calls : PostgresFailLatest(i)
    \/ \E i \in DOMAIN calls : PostgresFailInsert(i)
    \/ \E i \in DOMAIN calls : PostgresFailConflict(i)

FaultSpec == InitPostgres /\ [][FaultNext]_vars

(***************************************************************************)
(* The Journal called with arguments of every kind its checks tell apart.  *)
(* The Journal is constructed without an adapterName (the default applies) *)
(* or with 'PostgreSQL'.  A call is usual when its arguments are those of  *)
(* Spec; at most MaxUnusual calls of a behaviour are not.                  *)
(***************************************************************************)
ConfigNames == {"memory", "PostgreSQL"}
ArgAdapters == {"", "MEMORY", "redis"}
ArgNames == {Name("Created"), NoName, ObjectName}
ArgVersions == {Undefined, NotANumber, Float(1), Float(0 - 1)}
ArgData == {"plain", "function", "custom"}
ArgBounds == {Undefined, Num(1), Num(2), NotANumber}

UsualAppend(c) ==
    /\ c.eventName \in EventNames /\ c.eventData = "plain"
    /\ c.currentVersion \in Versions

UsualRead(c) == c.fromVersion \in ReadBounds /\ c.toVersion \in ReadBounds

\* the number of calls made so far whose arguments are not usual
Unusual ==
    Cardinality({i \in DOMAIN clients : clients[i].adapterArg \notin AdapterArgs})
    + Cardinality({i \in DOMAIN calls : ~UsualAppend(calls[i])})
    + Cardinality({i \in DOMAIN reads : ~UsualRead(reads[i])})

\* another call may be made, with usual arguments or not
MayCallWith(usual) ==
    /\ MayCall(MaxArgsCalls)
    /\ usual \/ Unusual < MaxUnusual

ArgsInit == \E adapterName \in ConfigNames : InitWith(adapterName)

ArgsNext ==
    \/ \E a \in ArgAdapters :
           /\ MayCallWith(a \in AdapterArgs)
           /\ CreateClient(a)
    \/ \E i \in DOMAIN clients : CreateClientResume(i)
    \/ /\ MayCall(MaxArgsCalls)
       /\ DestroyClient
    \/ \E i \in DOMAIN clients : DestroyClientResume(i)
    \/ \E eventName \in ArgNames, eventData \in ArgData, currentVersion \in ArgVersions :
           /\ MayCallWith(UsualAppend([eventName |-> eventName, eventData |-> eventData,
                                        currentVersion |-> currentVersion]))
           /\ JournalCreateEventForRef(eventName, "ref1", eventData, "user", currentVersion)
    \/ \E fromVersion \in ArgBounds, toVersion \in ArgBounds :
           /\ MayCallWith(UsualRead([fromVersion |-> fromVersion, toVersion |-> toVersion]))
           /\ JournalGetEventsForRef("ref1", fromVersion, toVersion)
    \/ \E i \in DOMAIN calls : MemoryResumeLatest(i)
    \/ \E i \in DOMAIN calls : MemoryResumeConflict(i)
    \/ \E i \in DOMAIN calls : PostgresResumeConnect(i)
    \/ \E i \in DOMAIN calls : PostgresResumeLatest(i)
    \/ \E i \in DOMAIN calls : PostgresResumeInsert(i)
    \/ \E i \in DOMAIN calls : PostgresResumeConflict(i)

ArgsSpec == ArgsInit /\ [][ArgsNext]_vars

(***************************************************************************)
(* The in-memory Journal called with a ref that is absent as well: the     *)
(* empty string, or undefined (written "undefined").                       *)
(***************************************************************************)
AbsentRefs == {"", "undefined"}

RefNext ==
    \/ Lifecycle(MaxRefCalls)
    \/ /\ MayCall(MaxRefCalls)
       /\ \E eventName \in EventNames, refId \in {"ref1"} \cup AbsentRefs,
             currentVersion \in Versions :
              JournalCreateEventForRef(eventName, refId, "plain", "user", currentVersion)
    \/ \E i \in DOMAIN calls : MemoryResumeLatest(i)
    \/ \E i \in DOMAIN calls : MemoryResumeConflict(i)

RefSpec == Init /\ [][RefNext]_vars

(***************************************************************************)
(* Properties.                                                             *)
(***************************************************************************)
\* the calls the Journal handed to adapter a for ref r, in call order
CallsFor(a, r) == SelectSeq(calls, LAMBDA c : c.adapter = a /\ c.refId = r)

Conflict(c) == c.pc = "done" /\ c.outcome = "error" /\ c.error = AdapterError("version conflict")

Returned(c) == c.pc = "done" /\ c.outcome = "event"

IsMemory(a) == adapters[a].name = "memory"

\* the number of entries of db equal to entry
Count(db, entry) == Cardinality({k \in DOMAIN db : db[k] = entry})

NoDuplicateVersion(db) ==
    \A k, l \in DOMAIN db :
        db[k].ref = db[l].ref /\ db[k].version = db[l].version => k = l

\* a step that adds entries to an in-memory db adds one entry, which passes
\* the version check against the db as it was before the step
InsertIsChecked ==
    \A a \in DOMAIN adapters :
        adapters'[a].db # adapters[a].db /\ adapters'[a].hasDb =>
            /\ Len(adapters'[a].db) = Len(adapters[a].db) + 1
            /\ SubSeq(adapters'[a].db, 1, Len(adapters[a].db)) = adapters[a].db
            /\ \A k \in DOMAIN adapters[a].db :
                   LET new == adapters'[a].db[Len(adapters'[a].db)]
                   IN  ~(adapters[a].db[k].ref = new.ref
                         /\ adapters[a].db[k].version >= new.version)

\* C1: in the in-memory adapter no two stored events ever share (ref, version),
\* under every interleaving of appends with or without an explicit
\* currentVersion; and every insert is one step with its version check: the
\* inserted entry is newer than all entries of its ref stored just before
\* that step.
C1_UniqueRefVersion ==
    /\ [](\A a \in DOMAIN adapters : NoDuplicateVersion(adapters[a].db))
    /\ [][InsertIsChecked]_vars

\* two appends for one ref raced (the second started while the first was
\* suspended) and one stored its event while the other met the conflict
C1_Witness ==
    \E i, j \in DOMAIN calls :
        /\ i < j /\ calls[i].refId = calls[j].refId
        /\ calls[i].adapter = calls[j].adapter /\ calls[i].adapter # 0
        /\ ~calls[j].alone
        /\ Returned(calls[j]) /\ Conflict(calls[i])
        /\ calls[i].currentVersion = Undefined /\ calls[j].currentVersion = Num(1)

\* C3: an event a createEventForRef call returned stays in the store, once and
\* unchanged, in every later state in which the adapter still holds its db.
C3_ReturnedEventsStay ==
    \A i \in DOMAIN calls :
        Returned(calls[i]) /\ adapters[calls[i].adapter].hasDb =>
            Count(adapters[calls[i].adapter].db, calls[i].entry) = 1

\* an event was returned, and afterwards an append for the same ref failed
\* with a conflict and a getEventsForRef call ended
C3_Witness ==
    /\ \E i, k \in DOMAIN calls :
           /\ i < k /\ calls[i].refId = calls[k].refId /\ calls[k].alone
           /\ Returned(calls[i]) /\ Conflict(calls[k])
           /\ adapters[calls[i].adapter].hasDb
    /\ \E n \in DOMAIN reads : reads[n].pc = "done" /\ reads[n].adapter # 0

\* the rank of call i among the calls for its adapter and ref
Rank(i) ==
    Cardinality({j \in 1..i : calls[j].adapter = calls[i].adapter
                              /\ calls[j].refId = calls[i].refId})

\* every call for adapter a and ref r so far came without currentVersion and
\* after all earlier calls for r had completed
Sequential(a, r) ==
    \A i \in DOMAIN calls :
        calls[i].adapter = a /\ calls[i].refId = r =>
            calls[i].currentVersion = Undefined /\ calls[i].alone

\* C4: createEventForRef calls for one ref made one after another, none with
\* a currentVersion, return versions 1, 2, ..., N in call order.
C4_SequentialVersions ==
    \A i \in DOMAIN calls :
        /\ calls[i].adapter # 0 /\ calls[i].pc = "done"
        /\ adapters[calls[i].adapter].hasDb
        /\ Sequential(calls[i].adapter, calls[i].refId)
        => Returned(calls[i]) /\ calls[i].entry.version = Rank(i)

\* three such calls for one ref have completed
C4_Witness ==
    \E i \in DOMAIN calls :
        /\ calls[i].adapter # 0 /\ calls[i].pc = "done"
        /\ adapters[calls[i].adapter].hasDb
        /\ Sequential(calls[i].adapter, calls[i].refId)
        /\ Rank(i) = 3

\* call i took a step, or was made in this step
Stepped(i) == i \notin DOMAIN calls \/ calls'[i] # calls[i]

\* C7: the steps of a createEventForRef call that does not store its event, a
\* version conflict included, leave every in-memory db (and the events table)
\* as they were: nothing is inserted, changed or removed.
C7_ConflictLeavesStore ==
    [][\A i \in DOMAIN calls' :
          Stepped(i) /\ calls'[i].outcome # "event"
              => adapters' = adapters /\ table' = table]_vars

\* a call met the conflict while events of two refs were stored
C7_Witness ==
    \E i \in DOMAIN calls :
        /\ Conflict(calls[i])
        /\ \E k, l \in DOMAIN adapters[calls[i].adapter].db :
               adapters[calls[i].adapter].db[k].ref # adapters[calls[i].adapter].db[l].ref

\* the expectedVersion a call works from: the currentVersion passed, or the
\* latest version read when none was passed
WorkedFrom(c) == IF c.currentVersion.t = "number" THEN c.currentVersion.v ELSE c.cur

\* calls i and j are the only two calls for their ref, both have completed on
\* an adapter that still holds its store, and both worked from version v
OnlyTwo(i, j, v) ==
    /\ i # j /\ calls[i].refId = calls[j].refId
    /\ calls[i].adapter = calls[j].adapter /\ calls[i].adapter # 0
    /\ Len(CallsFor(calls[i].adapter, calls[i].refId)) = 2
    /\ calls[i].pc = "done" /\ calls[j].pc = "done"
    /\ IsMemory(calls[i].adapter) => adapters[calls[i].adapter].hasDb
    /\ WorkedFrom(calls[i]) = v /\ WorkedFrom(calls[j]) = v

\* C2: of two createEventForRef calls for one ref that both work from
\* expectedVersion v (passed or resolved), with no other append for the ref,
\* exactly one returns version v+1 and the other fails with a version
\* conflict carrying currentVersion v and latestVersion v+1.
C2_OneWinner ==
    \A i, j \in DOMAIN calls : \A v \in 0..(MaxVersion + MaxCalls) :
        i < j /\ OnlyTwo(i, j, v) =>
            \E w, l \in {i, j} :
                /\ w # l
                /\ Returned(calls[w]) /\ calls[w].entry.version = v + 1
                /\ Conflict(calls[l]) /\ calls[l].cur = v
                /\ calls[l].latestVersion = v + 1

\* C6: a call with an explicit currentVersion e, 0 included, stores version
\* e+1 or fails; a call without one stores the latest version read plus 1.
C6_ExplicitVersion ==
    \A i \in DOMAIN calls :
        calls[i].adapter # 0 /\ calls[i].pc = "done" =>
            /\ calls[i].outcome \in {"event", "error"}
            /\ Returned(calls[i]) =>
                   calls[i].entry.version =
                       (IF calls[i].currentVersion.t = "number"
                        THEN calls[i].currentVersion.v ELSE calls[i].cur) + 1

\* calls i and j for one ref of the in-memory adapter, both with currentVersion
\* 1, j made after i completed and next after i for that ref; j has completed
TwiceExpectedOne(i, j) ==
    /\ i < j /\ calls[i].refId = calls[j].refId
    /\ calls[i].adapter = calls[j].adapter /\ calls[i].adapter # 0
    /\ IsMemory(calls[i].adapter) /\ adapters[calls[i].adapter].hasDb
    /\ calls[i].currentVersion = Num(1) /\ calls[j].currentVersion = Num(1)
    /\ calls[i].alone /\ calls[j].alone
    /\ \A k \in (i+1)..(j-1) : calls[k].refId # calls[i].refId
    /\ calls[j].pc = "done"

\* C9 as stated: the second of two calls in sequence with currentVersion 1
\* fails with a conflict carrying currentVersion 1 and latestVersion 1.
C9_LatestIsOne ==
    \A i, j \in DOMAIN calls :
        TwiceExpectedOne(i, j) =>
            /\ Conflict(calls[j])
            /\ calls[j].cur = 1 /\ calls[j].latestVersion = 1

\* C9 amended: the second call fails with a conflict carrying currentVersion 1
\* and as latestVersion a stored version of the ref that is at least 2, and
\* exactly 2 when the first call stored its event.
C9_LatestIsStored ==
    \A i, j \in DOMAIN calls :
        TwiceExpectedOne(i, j) =>
            /\ Conflict(calls[j])
            /\ calls[j].cur = 1 /\ calls[j].latestVersion >= 2
            /\ \E k \in DOMAIN adapters[calls[j].adapter].db :
                   /\ adapters[calls[j].adapter].db[k].ref = calls[j].refId
                   /\ adapters[calls[j].adapter].db[k].version = calls[j].latestVersion
            /\ Returned(calls[i]) => calls[j].latestVersion = 2

\* both calls have completed, the first with its event
C9_Witness ==
    \E i, j \in DOMAIN calls : TwiceExpectedOne(i, j) /\ Returned(calls[i])

\* the events of ref with from <= version <= to, ascending by version; an
\* undefined bound is open
InRange(db, refId, fromVersion, toVersion) ==
    SortAsc(SelectSeq(db, LAMBDA e :
        /\ e.ref = refId
        /\ fromVersion.t = "undefined" \/ Gte(e.version, fromVersion)
        /\ toVersion.t = "undefined" \/ Lte(e.version, toVersion)))

\* C10: with the in-memory adapter, a getEventsForRef call on a connected
\* Journal with valid bounds returns exactly the stored events of the ref in
\* the range, in ascending version order, whichever bounds are given.
C10_RangeFilter ==
    [][\A n \in DOMAIN reads' :
          n \notin DOMAIN reads /\ reads'[n].adapter # 0 /\ IsMemory(reads'[n].adapter) =>
              /\ reads'[n].pc = "done" /\ reads'[n].outcome = "rows"
              /\ reads'[n].rows = InRange(adapters[reads'[n].adapter].db, reads'[n].refId,
                                          reads'[n].fromVersion, reads'[n].toVersion)]_vars

\* the stored entries of a ref were inserted in strictly ascending version order
Ascending(db) ==
    \A k, l \in DOMAIN db :
        k < l /\ db[k].ref = db[l].ref => db[k].version < db[l].version

\* C5: every version stored for a ref is strictly greater than every version
\* stored earlier for that ref, in the in-memory adapter and in the
\* relational adapter alike.
C5_PersistOrderAscending ==
    /\ \A a \in DOMAIN adapters : Ascending(adapters[a].db)
    /\ Ascending(table)

Done(n) == n \in DOMAIN calls /\ calls[n].pc = "done"

\* C8: every createEventForRef call completes, with an event or an error, and
\* runs the version check and insert at most once: nothing is retried.
C8_CompletesWithoutRetry ==
    /\ [](\A i \in DOMAIN calls : calls[i].attempts <= 1)
    /\ \A n \in 1..MaxCalls : [](n \in DOMAIN calls => <>Done(n))

\* two calls raced and both have completed after one attempt each, one with
\* its event and one with the version conflict
C8_Witness ==
    \E i, j \in DOMAIN calls :
        /\ ~calls[j].alone
        /\ Returned(calls[i]) /\ calls[i].attempts = 1
        /\ Conflict(calls[j]) /\ calls[j].attempts = 1

\* the highest version stored in db for refId, 0 when there is none
MaxStored(db, refId) ==
    LET versions == {db[k].version : k \in {k \in DOMAIN db : db[k].ref = refId}}
    IN  IF versions = {} THEN 0
        ELSE CHOOSE m \in versions : \A n \in versions : n <= m

\* the append path of call i works with the latest version it read
UsesLatestRead(i) ==
    /\ calls'[i].pc \in {"latest", "conflict"} /\ calls'[i].awaited.ok =>
           calls'[i].awaited.v = MaxStored(adapters'[calls'[i].adapter].db, calls'[i].refId)
    /\ i \in DOMAIN calls /\ calls[i].pc = "latest" /\ calls[i].awaited.ok
           /\ adapters[calls[i].adapter].hasDb => calls'[i].cur = calls[i].awaited.v
    /\ i \in DOMAIN calls /\ calls[i].pc = "conflict" =>
           calls'[i].latestVersion = calls[i].awaited.v

\* C11: getLatestVersionForRef gives the highest version stored for the ref, 0
\* when the ref has no events; the append path reads that same value when it
\* resolves an absent currentVersion and when it builds a version conflict,
\* and works with the value it read.
C11_LatestVersion ==
    /\ [](\A a \in DOMAIN adapters : \A r \in Refs :
             getLatestVersionForRef(adapters[a].db, r) = MaxStored(adapters[a].db, r))
    /\ [][\A i \in DOMAIN calls' :
             Stepped(i) /\ calls'[i].adapter # 0 /\ IsMemory(calls'[i].adapter)
                 => UsesLatestRead(i)]_vars

\* a call resolved its version from a stored event, and a call met a conflict
\* that carries the higher of two stored versions
C11_Witness ==
    \E i, j \in DOMAIN calls :
        /\ Returned(calls[j]) /\ calls[j].currentVersion = Undefined /\ calls[j].cur = 1
        /\ Conflict(calls[i]) /\ calls[i].latestVersion = 2
        /\ calls[i].refId = calls[j].refId
        /\ Len(adapters[calls[i].adapter].db) = 2

\* a createClient call has returned the Journal, no destroyClient call was
\* under way when it was made, and none has been made since
AlreadyConnected ==
    \E i \in DOMAIN clients :
        /\ clients[i].op = "createClient" /\ clients[i].outcome = "journal"
        /\ clients[i].quiet
        /\ \A j \in DOMAIN clients : j > i => clients[j].op # "destroyClient"

\* C16: a createClient call on a Journal that is already connected, with no
\* destroyClient in between, fails with the already-initialized error and
\* changes nothing: the slot holds the same adapter instance, the Journal is
\* still marked connected, the stored events are as they were.
C16_DoubleConnectRejected ==
    [][\A n \in DOMAIN clients' :
          n \notin DOMAIN clients /\ clients'[n].op = "createClient" /\ AlreadyConnected =>
              /\ clients'[n].pc = "done" /\ clients'[n].outcome = "error"
              /\ clients'[n].error = TypeError("has already been initialized")
              /\ adapter # 0 /\ adapter' = adapter
              /\ initialized /\ initialized'
              /\ adapters' = adapters /\ table' = table]_vars

\* a second createClient call was rejected while the first connection held a
\* stored event
C16_Witness ==
    \E n \in DOMAIN clients :
        /\ clients[n].op = "createClient"
        /\ clients[n].error = TypeError("has already been initialized")
        /\ \A j \in DOMAIN clients : clients[j].op = "createClient"
        /\ initialized /\ adapter # 0 /\ adapters[adapter].db # <<>>

\* C17: a destroyClient call on a Journal that is not initialized returns the
\* Journal at once and changes nothing: the Journal stays uninitialized and
\* the adapter slot, the adapters and the stored events stay as they were.
C17_DestroyIdempotent ==
    [][\A n \in DOMAIN clients' :
          n \notin DOMAIN clients /\ clients'[n].op = "destroyClient" /\ ~initialized =>
              /\ clients'[n].pc = "done" /\ clients'[n].outcome = "journal"
              /\ ~initialized' /\ adapter' = adapter
              /\ adapters' = adapters /\ table' = table]_vars

\* a connection was created and destroyed, and a further destroyClient call
\* returned the Journal with the slot empty
C17_Witness ==
    \E i, j, k \in DOMAIN clients :
        /\ i < j /\ j < k
        /\ clients[i].op = "createClient" /\ clients[i].outcome = "journal"
        /\ clients[j].op = "destroyClient" /\ clients[j].outcome = "journal"
        /\ clients[j].adapter # 0
        /\ clients[k].op = "destroyClient" /\ clients[k].outcome = "journal"
        /\ clients[k].adapter = 0
        /\ ~initialized /\ adapter = 0

\* the adapter instances that are connected and not disconnected
Connected == {a \in DOMAIN adapters : adapters[a].hasDb}

NewIn(n, log) == n \notin DOMAIN log

\* this step leaves the connection and the stored events as they were
SameStore ==
    /\ initialized' = initialized /\ adapter' = adapter
    /\ adapters' = adapters /\ table' = table

RejectedNotInitialized(c) ==
    /\ c.pc = "done" /\ c.outcome = "error" /\ c.adapter = 0
    /\ c.error = JournalError("Journal has not been initialized")

\* C12: a createEventForRef or getEventsForRef call made while the Journal
\* is not initialized (never connected, or destroyed) fails with 'Journal has
\* not been initialized' whatever its arguments, and reaches no adapter.
C12_NotInitialized ==
    [][/\ \A n \in DOMAIN calls' :
             NewIn(n, calls) /\ ~initialized =>
                 RejectedNotInitialized(calls'[n]) /\ SameStore
       /\ \A n \in DOMAIN reads' :
             NewIn(n, reads) /\ ~initialized =>
                 RejectedNotInitialized(reads'[n]) /\ SameStore]_vars

\* after a connection was created and destroyed, a call with arguments that
\* are not valid was rejected as not initialized
C12_Witness ==
    /\ \E j \in DOMAIN clients :
           clients[j].op = "destroyClient" /\ clients[j].adapter # 0
    /\ \E n \in DOMAIN calls :
           RejectedNotInitialized(calls[n]) /\ ~UsualAppend(calls[n])

\* the messages of the Journal's argument checks
ValidationErrors ==
    {JournalError(m) : m \in {"Missing eventName", "Invalid eventName",
                              "currentVersion must be a number",
                              "currentVersion must be a positive number",
                              "currentVersion must be an integer",
                              "eventData cannot be a function",
                              "eventData cannot be a custom object",
                              "fromVersion must be a number",
                              "toVersion must be a number",
                              "toVersion is less than fromVersion"}}

\* the arguments of createEventForRef call c break one of its rules
BadAppend(c) ==
    \/ c.eventName.t # "string" \/ c.eventName.s = ""
    \/ /\ c.currentVersion.t # "undefined"
       /\ \/ c.currentVersion.t \notin {"number", "float"}
          \/ c.currentVersion.v < 0
          \/ c.currentVersion.t = "float"
    \/ c.eventData \in {"function", "custom"}

\* the bounds of getEventsForRef call c are numbers in the wrong order
Inverted(c) ==
    /\ c.fromVersion.t = "number" /\ c.toVersion.t = "number"
    /\ c.fromVersion.v > c.toVersion.v

\* C13: a createEventForRef or getEventsForRef call on an initialized Journal
\* whose arguments break a rule fails with a validation error, and a call that
\* fails with a validation error reaches no adapter and leaves the stored
\* events and the connection state unchanged.
C13_ValidationIsLocal ==
    [][/\ \A n \in DOMAIN calls' :
             NewIn(n, calls) /\ initialized
                 /\ (BadAppend(calls'[n]) \/ calls'[n].error \in ValidationErrors) =>
                     /\ calls'[n].pc = "done" /\ calls'[n].error \in ValidationErrors
                     /\ calls'[n].adapter = 0 /\ SameStore
       /\ \A n \in DOMAIN reads' :
             NewIn(n, reads) /\ initialized
                 /\ (Inverted(reads'[n]) \/ reads'[n].error \in ValidationErrors) =>
                     /\ reads'[n].pc = "done" /\ reads'[n].error \in ValidationErrors
                     /\ reads'[n].adapter = 0 /\ SameStore]_vars

\* with an event stored, a call with a custom object as payload was rejected
C13_Witness ==
    \E n \in DOMAIN calls :
        /\ calls[n].eventData = "custom"
        /\ calls[n].error = JournalError("eventData cannot be a custom object")
        /\ adapter # 0 /\ adapters[adapter].db # <<>>

\* the preconditions of createEventForRef in the order stated, each with
\* whether call c breaks it and the message of its error
Preconditions(c, connected) ==
    << <<~connected, "Journal has not been initialized">>,
       <<c.eventName.t = "undefined" \/ (c.eventName.t = "string" /\ c.eventName.s = ""),
         "Missing eventName">>,
       <<c.eventName.t # "string", "Invalid eventName">>,
       <<c.currentVersion.t \notin {"undefined", "number", "float"},
         "currentVersion must be a number">>,
       <<c.currentVersion.t \in {"number", "float"} /\ c.currentVersion.v < 0,
         "currentVersion must be a positive number">>,
       <<c.currentVersion.t = "float", "currentVersion must be an integer">>,
       <<c.eventData = "function", "eventData cannot be a function">>,
       <<c.eventData = "custom", "eventData cannot be a custom object">> >>

\* the message of the first precondition that call c breaks, "" when none
FirstBroken(c, connected) ==
    LET checks == Preconditions(c, connected)
        broken == {k \in DOMAIN checks : checks[k][1]}
    IN  IF broken = {} THEN ""
        ELSE checks[CHOOSE k \in broken : \A l \in broken : k <= l][2]

\* C14: createEventForRef checks its preconditions in the order not
\* initialized, name missing, name not a string, currentVersion not a number,
\* negative, not an integer, payload a function, payload a custom object, and
\* fails with the error of the first that is broken; when none is broken it
\* fails with none of these errors.
C14_FirstFailureWins ==
    [][\A n \in DOMAIN calls' :
          NewIn(n, calls) =>
              LET first == FirstBroken(calls'[n], initialized)
              IN  IF first # ""
                  THEN calls'[n].pc = "done" /\ calls'[n].error = JournalError(first)
                  ELSE calls'[n].error.name # "JournalError"]_vars

\* a call with a negative fraction as currentVersion and a function as
\* payload was rejected for the negative version
C14_Witness ==
    \E n \in DOMAIN calls :
        /\ calls[n].eventName \in EventNames
        /\ calls[n].currentVersion = Float(0 - 1) /\ calls[n].eventData = "function"
        /\ calls[n].error = JournalError("currentVersion must be a positive number")

\* C15: on an initialized Journal getEventsForRef fails when fromVersion or
\* toVersion is given and is not a number, fails with 'toVersion is less than
\* fromVersion' when both are numbers and fromVersion > toVersion, and hands
\* the call to the adapter when fromVersion = toVersion.
C15_ReadBounds ==
    [][\A n \in DOMAIN reads' :
          NewIn(n, reads) /\ initialized =>
              LET c == reads'[n]
              IN  /\ c.fromVersion.t \notin {"undefined", "number", "float"} =>
                         c.pc = "done" /\ c.error = JournalError("fromVersion must be a number")
                  /\ c.toVersion.t \notin {"undefined", "number", "float"} =>
                         c.pc = "done" /\ c.error \in ValidationErrors
                  /\ Inverted(c) =>
                         /\ c.pc = "done"
                         /\ c.error = JournalError("toVersion is less than fromVersion")
                  /\ c.fromVersion.t = "number" /\ c.toVersion = c.fromVersion =>
                         c.adapter = adapter /\ c.error.name # "JournalError"]_vars

\* on a connected Journal a call with fromVersion = toVersion reached the
\* adapter and a call with fromVersion > toVersion was rejected
C15_Witness ==
    \E n, m \in DOMAIN reads :
        /\ reads[n].fromVersion = Num(1) /\ reads[n].toVersion = Num(1)
        /\ reads[n].adapter # 0
        /\ reads[m].fromVersion = Num(2) /\ reads[m].toVersion = Num(1)
        /\ reads[m].error = JournalError("toVersion is less than fromVersion")

\* the adapter a createClient call with argument adapterArg asks for, in lower
\* case: the argument when one is given, else the name given at construction
Requested(adapterArg) ==
    LET name == IF adapterArg # "" THEN adapterArg ELSE config.adapterName
    IN  CASE name \in {"memory", "MEMORY"} -> "memory"
          [] name \in {"postgresql", "PostgreSQL"} -> "postgresql"
          [] OTHER -> name

Supported == {"memory", "postgresql", "mongodb"}

\* C19: a createClient call that asks for an adapter outside the supported
\* set fails with the invalid-adapter error, creates and connects no adapter
\* and leaves the connection state and the stored events as they were.
C19_InvalidAdapter ==
    [][\A n \in DOMAIN clients' :
          NewIn(n, clients) /\ clients'[n].op = "createClient"
              /\ Requested(clients'[n].adapterArg) \notin Supported =>
                  /\ clients'[n].pc = "done" /\ clients'[n].outcome = "error"
                  /\ clients'[n].error = TypeError("is an invalid adapter")
                  /\ clients'[n].adapter = 0 /\ SameStore]_vars

\* on a connected Journal a createClient call for 'redis' was rejected
C19_Witness ==
    \E n \in DOMAIN clients :
        /\ clients[n].adapterArg = "redis"
        /\ clients[n].error = TypeError("is an invalid adapter")
        /\ initialized /\ adapter # 0

\* C20: a createClient call that asks for a supported adapter, in any case, is
\* not rejected as invalid, and when it returns the Journal the slot holds an
\* instance of the adapter asked for: the one named by the argument when one
\* is given, else the one named at construction (in-memory by default).
C20_AdapterSelection ==
    [][\A n \in DOMAIN clients' :
          clients'[n].op = "createClient" =>
              /\ NewIn(n, clients) /\ Requested(clients'[n].adapterArg) \in Supported =>
                     clients'[n].error # TypeError("is an invalid adapter")
              /\ ~NewIn(n, clients) /\ clients'[n] # clients[n]
                     /\ clients'[n].outcome = "journal" =>
                     /\ initialized' /\ adapter' # 0
                     /\ adapters'[adapter'].name = Requested(clients'[n].adapterArg)]_vars

\* a Journal constructed for PostgreSQL was connected to the in-memory adapter
\* by a createClient call with the argument 'MEMORY'
C20_Witness ==
    \E n \in DOMAIN clients :
        /\ config.adapterName = "PostgreSQL"
        /\ clients[n].adapterArg = "MEMORY" /\ clients[n].outcome = "journal"
        /\ adapter # 0 /\ adapters[adapter].name = "memory"

(***************************************************************************)
(* C21.  When the connect of the adapter fails during createClient, the    *)
(* call fails with a generic Error, the failure changes neither the        *)
(* initialized flag nor the adapter slot (so a Journal whose createClient  *)
(* calls all failed is uninitialized with an empty slot), and a later      *)
(* createClient on the empty slot tries to connect again, with a new       *)
(* adapter.                                                                *)
(***************************************************************************)
ConnectFailed(c) ==
    c.op = "createClient" /\ c.pc = "done" /\ c.outcome = "error" /\ c.adapter # 0

C21_ConnectFailure ==
    [][/\ \A n \in DOMAIN clients :
              clients[n].pc = "connecting" /\ ConnectFailed(clients'[n]) =>
                  /\ clients'[n].error = PlainError("connect failed")
                  /\ initialized' = initialized /\ adapter' = adapter
                  /\ (\A j \in DOMAIN clients' :
                          clients'[j].op = "createClient" => clients'[j].outcome = "error")
                     => ~initialized' /\ adapter' = 0
       /\ \A n \in DOMAIN clients' :
              /\ NewIn(n, clients) /\ clients'[n].op = "createClient"
              /\ adapter = 0
              /\ \E j \in DOMAIN clients : ConnectFailed(clients[j])
              => /\ clients'[n].pc = "connecting"
                 /\ clients'[n].adapter = Len(adapters) + 1
                 /\ adapters'[clients'[n].adapter] = NewAdapter("postgresql")]_vars

\* a createClient call failed to connect, and one made afterwards connected
C21_Witness ==
    \E i, j \in DOMAIN clients :
        /\ i < j /\ ConnectFailed(clients[i])
        /\ clients[j].op = "createClient" /\ clients[j].settled
        /\ clients[j].outcome = "journal"
        /\ initialized /\ adapter = clients[j].adapter

(***************************************************************************)
(* C22.  The lifecycle repeats: a destroyClient call made on a connected   *)
(* Journal with no other lifecycle call under way completes with the slot  *)
(* empty and the Journal uninitialized; a createClient call made then      *)
(* connects a new adapter, and when it returns the Journal is initialized  *)
(* with that adapter in the slot.                                          *)
(***************************************************************************)
Destroyed(c) ==
    c.op = "destroyClient" /\ c.pc = "done" /\ c.outcome = "journal" /\ c.adapter # 0

C22_LifecycleRepeats ==
    [][/\ \A n \in DOMAIN clients :
              /\ clients[n].op = "destroyClient" /\ clients[n].pc = "closing"
              /\ clients[n].settled /\ clients'[n].pc = "done"
              => Destroyed(clients'[n]) /\ adapter' = 0 /\ ~initialized'
       /\ \A n \in DOMAIN clients' :
              /\ NewIn(n, clients) /\ clients'[n].op = "createClient"
              /\ clients'[n].settled
              /\ \E d \in DOMAIN clients : Destroyed(clients[d]) /\ clients[d].settled
              /\ adapter = 0
              => /\ clients'[n].pc = "connecting"
                 /\ clients'[n].adapter = Len(adapters) + 1
                 /\ adapters'[clients'[n].adapter] = NewAdapter("memory")
       /\ \A n \in DOMAIN clients :
              /\ clients[n].op = "createClient" /\ clients[n].pc = "connecting"
              /\ clients[n].settled /\ clients'[n].pc = "done"
              => /\ clients'[n].outcome = "journal"
                 /\ initialized' /\ adapter' = clients[n].adapter
                 /\ adapters'[adapter'].hasDb]_vars

\* connected, disconnected and connected again, with another adapter
C22_Witness ==
    \E i, d, j \in DOMAIN clients :
        /\ i < d /\ d < j
        /\ clients[i].op = "createClient" /\ clients[i].outcome = "journal"
        /\ Destroyed(clients[d]) /\ clients[d].settled
        /\ clients[d].adapter = clients[i].adapter
        /\ clients[j].op = "createClient" /\ clients[j].settled
        /\ clients[j].outcome = "journal"
        /\ initialized /\ adapter = clients[j].adapter
        /\ adapter # clients[i].adapter /\ adapters[adapter].hasDb

(***************************************************************************)
(* C23.  When the disconnect of the adapter fails during destroyClient,    *)
(* the call ends with that error in the same step (nothing is caught and   *)
(* no second disconnect is made), the Journal is left marked               *)
(* uninitialized, and the ended call never runs again.                     *)
(***************************************************************************)
DisconnectFailed(c) ==
    c.op = "destroyClient" /\ c.pc = "done" /\ c.outcome = "error" /\ c.adapter # 0

C23_DisconnectFailure ==
    [][/\ \A n \in DOMAIN clients' :
              NewIn(n, clients) /\ DisconnectFailed(clients'[n])
              => /\ initialized /\ ~initialized'
                 /\ clients'[n].error # NoError
                 /\ adapter' = adapter /\ adapters' = adapters
       /\ \A n \in DOMAIN clients :
              DisconnectFailed(clients[n]) => clients'[n] = clients[n]]_vars

\* the disconnect threw and the Journal is marked uninitialized
C23_Witness ==
    \E n \in DOMAIN clients :
        /\ DisconnectFailed(clients[n])
        /\ clients[n].error = PlainError("disconnect failed")
        /\ ~initialized /\ adapter = clients[n].adapter

(***************************************************************************)
(* C24.  The backends are interchangeable: whenever the PostgreSQL adapter *)
(* decides an append against the stored events, it decides as the          *)
(* in-memory adapter's version check decides on the same events (the event *)
(* is stored by the one exactly when it is stored by the other), so that   *)
(* equal sequences of calls give equal outcomes.                           *)
(***************************************************************************)
C24_SameAsMemory ==
    [][\A i \in DOMAIN calls :
           calls[i].pc = "insert" /\ Stepped(i) =>
               (Returned(calls'[i]) <=>
                   versionCheckOk(table, Entry(calls[i], calls[i].cur)))]_vars

(***************************************************************************)
(* C25.  The configuration of the Journal is fixed at construction: no     *)
(* step of a createClient (with or without an adapter name of its own),    *)
(* destroyClient, createEventForRef or getEventsForRef call changes it.    *)
(***************************************************************************)
C25_ConfigFixed == [][config' = config]_vars

\* a Journal constructed for PostgreSQL was connected with 'MEMORY', stored
\* an event and was disconnected, and is still configured for PostgreSQL
C25_Witness ==
    /\ config = [adapterName |-> "PostgreSQL", dbConnectionOptions |-> "null"]
    /\ \E i, d \in DOMAIN clients :
           /\ clients[i].op = "createClient" /\ clients[i].adapterArg = "MEMORY"
           /\ clients[i].outcome = "journal"
           /\ Destroyed(clients[d])
    /\ \E n \in DOMAIN calls : Returned(calls[n])

(***************************************************************************)
(* C26.  Every append the PostgreSQL adapter ended with an error that is   *)
(* not the version conflict (a failed connect, a failed latest-version     *)
(* read, a failed INSERT, a failed re-read after the conflict) ended with  *)
(* the AdapterError 'adapter error' that wraps the cause.                  *)
(***************************************************************************)
C26_FailuresWrapped ==
    \A i \in DOMAIN calls :
        /\ calls[i].pc = "done" /\ calls[i].outcome = "error"
        /\ calls[i].adapter # 0
        /\ ~Conflict(calls[i])
        => calls[i].error = AdapterError("adapter error")

(***************************************************************************)
(* C27.  A conflict can be recovered from: when a call ended with a        *)
(* version conflict and the next call for that ref, made after it with no  *)
(* other call for the ref under way, passes the latestVersion of the       *)
(* conflict as its currentVersion, that call stores and returns the event  *)
(* of version latestVersion + 1.                                           *)
(***************************************************************************)
Retries(i, j) ==
    /\ i < j
    /\ Conflict(calls[i]) /\ calls[i].alone
    /\ calls[j].alone /\ calls[j].pc = "done"
    /\ calls[j].refId = calls[i].refId /\ calls[j].adapter = calls[i].adapter
    /\ calls[j].currentVersion = Num(calls[i].latestVersion)
    /\ \A k \in DOMAIN calls :
           i < k /\ k < j /\ calls[k].refId = calls[i].refId => calls[k].adapter = 0

C27_RetryAfterConflict ==
    \A i, j \in DOMAIN calls :
        Retries(i, j) =>
            /\ Returned(calls[j])
            /\ calls[j].entry.version = calls[i].latestVersion + 1
            /\ LET ad == adapters[calls[j].adapter]
               IN  ad.hasDb => \E k \in DOMAIN ad.db : ad.db[k] = calls[j].entry

C27_Witness ==
    \E i, j \in DOMAIN calls :
        /\ Retries(i, j) /\ Returned(calls[j])
        /\ IsMemory(calls[j].adapter)
        /\ calls[j].entry.version = calls[i].latestVersion + 1

(***************************************************************************)
(* C28.  An append is rejected with a version conflict only on an exact    *)
(* collision: whenever a call ended with a version conflict, the version   *)
(* it tried to store, its expected version plus one, is stored for its     *)
(* ref in the adapter that rejected it.                                    *)
(***************************************************************************)
C28_ExactCollisionOnly ==
    \A i \in DOMAIN calls :
        Conflict(calls[i]) /\ adapters[calls[i].adapter].hasDb =>
            \E k \in DOMAIN adapters[calls[i].adapter].db :
                /\ adapters[calls[i].adapter].db[k].ref = calls[i].refId
                /\ adapters[calls[i].adapter].db[k].version = calls[i].cur + 1

(***************************************************************************)
(* C29.  Refs are independent in the in-memory adapter: a step of a call   *)
(* for one ref changes neither the stored events nor the latest version of *)
(* any other ref, and what the step reads and decides (the latest version  *)
(* it resolves, whether it stores or conflicts, the latest version of the  *)
(* conflict) is what it reads and decides on the events of its own ref     *)
(* alone, so appends to other refs cannot change its outcome however they  *)
(* are interleaved.                                                        *)
(***************************************************************************)
OfRef(db, refId) == SelectSeq(db, LAMBDA e : e.ref = refId)

Checked(i) ==
    calls'[i].attempts = (IF i \in DOMAIN calls THEN calls[i].attempts ELSE 0) + 1

C29_RefsIndependent ==
    [][\A i \in DOMAIN calls' :
           Stepped(i) /\ calls'[i].adapter # 0 /\ adapters[calls'[i].adapter].hasDb =>
               LET c == calls'[i]
                   before == adapters[c.adapter].db
                   after == adapters'[c.adapter].db
                   own == OfRef(before, c.refId)
               IN  /\ \A r \in Refs \ {c.refId} :
                          /\ OfRef(after, r) = OfRef(before, r)
                          /\ getLatestVersionForRef(after, r)
                                 = getLatestVersionForRef(before, r)
                   /\ NewIn(i, calls) /\ c.pc = "latest"
                      => c.awaited = Resolved(getLatestVersionForRef(own, c.refId))
                   /\ Checked(i)
                      => /\ Returned(c) <=> versionCheckOk(own, Entry(c, c.cur))
                         /\ ~Returned(c)
                            => /\ c.pc = "conflict"
                               /\ c.awaited = Resolved(getLatestVersionForRef(own, c.refId))]_vars

\* two events of one ref are stored and the first append to another ref
\* returned version 1
C29_Witness ==
    \E i, j \in DOMAIN calls :
        /\ i < j /\ calls[i].refId # calls[j].refId
        /\ calls[i].adapter = calls[j].adapter
        /\ Returned(calls[i]) /\ Returned(calls[j])
        /\ calls[j].currentVersion = Undefined /\ calls[j].entry.version = 1
        /\ Len(OfRef(adapters[calls[i].adapter].db, calls[i].refId)) = 2
        /\ Len(OfRef(adapters[calls[i].adapter].db, calls[j].refId)) = 1

(***************************************************************************)
(* C30.  destroyClient on a connected Journal clears the initialized flag  *)
(* and disconnects the adapter in its first step, with the adapter still   *)
(* in the slot, and empties the slot when it is resumed.  From the start   *)
(* of a destroyClient call made with no other lifecycle call under way,    *)
(* and as long as no later createClient call has begun to connect, every   *)
(* createEventForRef and getEventsForRef call that starts is rejected with *)
(* 'Journal has not been initialized' and reaches no adapter.              *)
(***************************************************************************)
DestroyStarted ==
    \E d \in DOMAIN clients :
        /\ clients[d].op = "destroyClient" /\ clients[d].adapter # 0
        /\ clients[d].settled
        /\ \A j \in DOMAIN clients :
               j > d /\ clients[j].op = "createClient" => clients[j].adapter = 0

C30_DestroyOrder ==
    [][/\ \A n \in DOMAIN clients' :
              /\ NewIn(n, clients) /\ clients'[n].op = "destroyClient"
              /\ initialized /\ adapter # 0
              => /\ clients'[n].pc = "closing"
                 /\ ~initialized' /\ adapter' = adapter
                 /\ ~adapters'[adapter].hasDb
       /\ \A n \in DOMAIN clients :
              /\ clients[n].op = "destroyClient" /\ clients[n].pc = "closing"
              /\ clients'[n].pc = "done"
              => adapter' = 0 /\ initialized' = initialized /\ adapters' = adapters
       /\ \A n \in DOMAIN calls' :
              NewIn(n, calls) /\ DestroyStarted
              => RejectedNotInitialized(calls'[n]) /\ adapters' = adapters
       /\ \A n \in DOMAIN reads' :
              NewIn(n, reads) /\ DestroyStarted
              => RejectedNotInitialized(reads'[n]) /\ adapters' = adapters]_vars

\* an append was stored, destroyClient is waiting for the disconnect, and an
\* append made meanwhile was rejected
C30_Witness ==
    /\ \E d \in DOMAIN clients :
           /\ clients[d].op = "destroyClient" /\ clients[d].pc = "closing"
           /\ clients[d].settled
    /\ adapter # 0 /\ ~initialized
    /\ \E i, n \in DOMAIN calls :
           i < n /\ Returned(calls[i]) /\ RejectedNotInitialized(calls[n])

(***************************************************************************)
(* C31.  An append that the in-memory adapter suspended at its             *)
(* latest-version read, and that read the version, ends with the event or  *)
(* with a JournalError or an AdapterError, also when destroyClient         *)
(* disconnects the adapter while it is suspended.                          *)
(***************************************************************************)
C31_TypedOutcome ==
    \A i \in DOMAIN calls :
        /\ calls[i].pc = "done" /\ calls[i].adapter # 0
        /\ IsMemory(calls[i].adapter)
        /\ ResolveVersion(calls[i].currentVersion) /\ calls[i].awaited.ok
        => \/ Returned(calls[i])
           \/ calls[i].error.name \in {"JournalError", "AdapterError"}

(***************************************************************************)
(* C32.  In the PostgreSQL adapter getEventsForRef treats only an absent   *)
(* bound as unbounded: on every table the Journal can have built, for      *)
(* every ref and every bounds, absent or a number from 0 on, its rows are  *)
(* exactly the rows of the ref with from <= version <= to, ascending.      *)
(***************************************************************************)
ListBounds == {Undefined} \cup {Num(n) : n \in 0..MaxVersion}

C32_ZeroIsABound ==
    \A refId \in Refs, fromVersion \in ListBounds, toVersion \in ListBounds :
        PostgresGetEventsForRef(table, refId, fromVersion, toVersion)
            = InRange(table, refId, fromVersion, toVersion)

(***************************************************************************)
(* C33.  The adapter name is checked before the slot: a createClient call  *)
(* for an unsupported adapter made while the slot holds an adapter fails   *)
(* with the invalid-adapter error, not with the already-initialized one,   *)
(* and leaves the flag, the slot and the adapters as they were.            *)
(***************************************************************************)
C33_InvalidBeforeConnected ==
    [][\A n \in DOMAIN clients' :
          /\ NewIn(n, clients) /\ clients'[n].op = "createClient"
          /\ Requested(clients'[n].adapterArg) \notin Supported
          /\ adapter # 0
          => /\ clients'[n].error = TypeError("is an invalid adapter")
             /\ clients'[n].error # TypeError("has already been initialized")
             /\ initialized' = initialized /\ adapter' = adapter
             /\ adapters' = adapters]_vars

\* createClient returned, and a createClient call for 'redis' made afterwards
\* was rejected as invalid with the connection in place
C33_Witness ==
    \E i, n \in DOMAIN clients :
        /\ i < n
        /\ clients[i].op = "createClient" /\ clients[i].outcome = "journal"
        /\ clients[n].adapterArg = "redis" /\ clients[n].settled
        /\ clients[n].error = TypeError("is an invalid adapter")
        /\ initialized /\ adapter = clients[i].adapter

(***************************************************************************)
(* C34.  Every event the in-memory adapter has stored, and every event an  *)
(* append has returned, has all the fields of the logical record: ref,     *)
(* version, event, payload, initiated_by and created_on.                   *)
(***************************************************************************)
RecordShape == {"ref", "version", "event", "payload", "initiated_by", "created_on"}

C34_RecordShape ==
    /\ \A a \in DOMAIN adapters : \A k \in DOMAIN adapters[a].db :
           RecordShape \subseteq DOMAIN adapters[a].db[k]
    /\ \A i \in DOMAIN calls :
           Returned(calls[i]) => RecordShape \subseteq DOMAIN calls[i].entry

(***************************************************************************)
(* C35.  The ref is required: an append whose ref is absent ends with an   *)
(* error, and no stored event has an absent ref.                           *)
(***************************************************************************)
C35_RefRequired ==
    /\ \A i \in DOMAIN calls :
           calls[i].refId \in AbsentRefs /\ calls[i].pc = "done"
           => calls[i].outcome = "error"
    /\ \A a \in DOMAIN adapters : \A k \in DOMAIN adapters[a].db :
           adapters[a].db[k].ref \notin AbsentRefs

(***************************************************************************)
(* C36.  Whenever no createClient or destroyClient call is under way, the  *)
(* Journal is marked initialized exactly when its slot holds an adapter,   *)
(* also after calls whose connect or disconnect failed.                    *)
(***************************************************************************)
C36_FlagMatchesSlot ==
    (\A j \in DOMAIN clients : clients[j].pc = "done")
        => (initialized <=> adapter # 0)

(***************************************************************************)
(* C37.  In the in-memory adapter every version conflict carries a         *)
(* latestVersion that is at least the currentVersion it carries plus one.  *)
(***************************************************************************)
C37_LatestAboveExpected ==
    \A i \in DOMAIN calls :
        Conflict(calls[i]) /\ IsMemory(calls[i].adapter)
        => calls[i].latestVersion >= calls[i].cur + 1

\* a conflict whose latestVersion is the version tried, and one whose
\* latestVersion is above it
C37_Witness ==
    \E i, j \in DOMAIN calls :
        /\ Conflict(calls[i]) /\ IsMemory(calls[i].adapter)
        /\ calls[i].latestVersion = calls[i].cur + 1
        /\ Conflict(calls[j]) /\ IsMemory(calls[j].adapter)
        /\ calls[j].latestVersion > calls[j].cur + 1

(***************************************************************************)
(* C38.  In the PostgreSQL adapter every connection an append acquired     *)
(* from the pool is released by the time the append completes, whichever   *)
(* way it completes.                                                       *)
(***************************************************************************)
C38_ConnectionsReleased ==
    \A i \in DOMAIN calls : calls[i].pc = "done" => calls[i].conn = 0

(***************************************************************************)
(* C39.  With the in-memory adapter events do not survive a destroyClient  *)
(* / createClient cycle: the disconnect releases the store with its        *)
(* events, the adapter a createClient call puts into the slot has a store  *)
(* without events (latest version 0 for every ref), and the first append   *)
(* to a ref on an adapter, made without a version and with no other call   *)
(* for the ref under way, returns version 1.                               *)
(***************************************************************************)
FirstOn(i) ==
    \A j \in DOMAIN calls :
        j < i /\ calls[j].refId = calls[i].refId => calls[j].adapter # calls[i].adapter

C39_FreshStore ==
    [][/\ \A n \in DOMAIN clients' :
              /\ NewIn(n, clients) /\ clients'[n].op = "destroyClient"
              /\ clients'[n].pc = "closing"
              => /\ ~adapters'[adapter].hasDb
                 /\ adapters'[adapter].db = <<>>
       /\ \A n \in DOMAIN clients :
              /\ clients[n].op = "createClient" /\ clients[n].pc = "connecting"
              /\ clients'[n].outcome = "journal"
              => /\ adapters'[adapter'].hasDb /\ adapters'[adapter'].db = <<>>
                 /\ \A r \in Refs : getLatestVersionForRef(adapters'[adapter'].db, r) = 0
                 /\ \A j \in DOMAIN calls : calls[j].adapter # adapter'
       /\ \A i \in DOMAIN calls' :
              /\ Stepped(i) /\ Returned(calls'[i])
              /\ calls'[i].currentVersion = Undefined
              /\ calls'[i].alone /\ FirstOn(i)'
              => calls'[i].entry.version = 1]_vars

\* an event was stored, the Journal was destroyed and connected again, and
\* the adapter in the slot has no events
C39_Witness ==
    \E i, d, j \in DOMAIN clients :
        /\ i < d /\ d < j
        /\ Destroyed(clients[d]) /\ clients[d].adapter = clients[i].adapter
        /\ clients[j].op = "createClient" /\ clients[j].settled
        /\ clients[j].outcome = "journal" /\ adapter = clients[j].adapter
        /\ \E n \in DOMAIN calls :
               Returned(calls[n]) /\ calls[n].adapter = clients[i].adapter
        /\ adapters[adapter].hasDb /\ adapters[adapter].db = <<>>

====
